---- MODULE Spec2Model ----
(***************************************************************************)
(* A model of algoart/parameters.py: the ParameterSet option container,    *)
(* the LandscapeGenerator's min-max normalisation, the ColorPalette        *)
(* strategies and the OverlayArtist's three overlay routines, composed by  *)
(* ArtProject.create().                                                    *)
(*                                                                         *)
(* The components do not share state, so the module holds one              *)
(* specification per component:                                            *)
(*   SpecParams     ParameterSet (constructor, update, get)                *)
(*   SpecLandscape  LandscapeGenerator.generate                            *)
(*   SpecArt        ColorPalette, OverlayArtist and ArtProject.create      *)
(* Each specification keeps the variables of the others at their idle      *)
(* value.                                                                  *)
(***************************************************************************)
EXTENDS Integers, Sequences, FiniteSets, TLC

VARIABLES
    \* ParameterSet
    params,        \* self.params: the dict, a function on the keys present
    writes,        \* history: the kwargs of the constructor and of every update, in order
    ret,           \* the last get() call: its arguments, the value it returned and
                   \* the number of writes that preceded it
    \* LandscapeGenerator
    lpc,           \* position of generate(): "start", "returned" or "raised"
                   \* ("idle" in the other specifications)
    size,          \* self.params.get("size")
    field,         \* the sampled noise values, before normalisation
    normalized,    \* the grid generate() returns
    \* ColorPalette
    palette_type,  \* self.palette_type
    custom_colors, \* self.custom_colors
    gen,           \* the last direct call of generate(n), with what it returned
    \* OverlayArtist and ArtProject
    pc,            \* position of the client: "new", "palette", "ready", "generated",
                   \* inside create(): "apply", "particles", "fractal", "cellular",
                   \* and after it: "done" or "raised" ("idle" in the other specifications)
    overlay_params,\* the overlay ParameterSet: overlay_type, num_particles, iterations
    heightmap,     \* the heightmap create() hands to apply_overlay
    image,         \* the RGB image, mutated in place by the overlay routine
    base,          \* history: the grayscale base image as step 1 built it
    iter,          \* loop iterations of the overlay routine completed so far
    circles,       \* history: the circles drawn, each with centre (x, y) and radius r
    last,          \* history: the last cellular update
    paletteCalls,  \* history: calls of palette.generate() made inside create()
    error          \* the exception create() raised, or "none"

pvars == <<params, writes, ret>>
lvars == <<lpc, size, field, normalized>>
cvars == <<palette_type, custom_colors, gen>>
ovars == <<overlay_params, heightmap, image, base, iter, circles, last, paletteCalls, error>>
avars == <<cvars, pc, ovars>>
vars == <<pvars, lvars, avars>>

\* ------------------------------------------------------------------------
\* Bounds of the model
\* ------------------------------------------------------------------------
MaxUpdates == 2          \* update() calls per behaviour
Keys == {"size", "scale"}
Values == {100, 512}
Defaults == {-1, 512}    \* the defaults handed to get(); one coincides with a value
MaxGrid == 2             \* largest "size" of a generated landscape
NoiseLevels == {-3, -1, 0, 2}   \* the values noise.pnoise2 is sampled at (fixed point)
MaxColors == 2           \* largest num_colors of a direct generate(num_colors) call
\* the values random.randint(50, 255) draws for a channel in SpecPalette
PaletteChannels == {50, 140, 255}
\* the one value random.randint(50, 255) draws for a channel in SpecArt
OverlayChannels == {200}
ArtNumColors == {0, 1, 10}   \* num_colors of a direct generate() call in SpecArt
Side == 3                \* side of the square heightmap handed to apply_overlay
MaxParticles == 1        \* largest num_particles
MaxIterations == 2       \* largest iterations
MaxFractalHits == 1      \* pixels fractal_overlay recolors (each with probability 0.001)
Perturbations == {-10, 10}   \* the values random.randint(-10, 10) draws

\* the state of ret before any get() call
NoCall == [called |-> FALSE, key |-> "", default |-> 0, value |-> 0, after |-> 0]

\* ------------------------------------------------------------------------
\* ParameterSet
\* ------------------------------------------------------------------------
\* **kwargs: any mapping from some of the keys to values
Kwargs == UNION {[S -> Values] : S \in SUBSET Keys}

\* a dict.update that keeps the value of a key already present (setdefault)
DictUpdateKeepOld(d, kw) ==
    [k \in DOMAIN d \cup DOMAIN kw |-> IF k \in DOMAIN d THEN d[k] ELSE kw[k]]

\* dict.update(kw): every key of kw is set, the others keep their value
DictUpdate(d, kw) ==
    [k \in DOMAIN d \cup DOMAIN kw |-> IF k \in DOMAIN kw THEN kw[k] ELSE d[k]]

\* dict.get(key, default)
DictGet(d, key, default) ==
    IF key \in DOMAIN d THEN d[key] ELSE default

\* __init__(self, **kwargs): self.params = kwargs
ParameterSet_init ==
    /\ params \in Kwargs
    /\ writes = <<params>>
    /\ ret = NoCall

\* update(self, **kwargs): self.params.update(kwargs)
ParameterSet_update ==
    /\ Len(writes) <= MaxUpdates
    /\ \E kw \in Kwargs :
          /\ params' = DictUpdate(params, kw)
          /\ writes' = Append(writes, kw)
    /\ UNCHANGED ret

\* get(self, key, default): return self.params.get(key, default)
ParameterSet_get ==
    /\ \E key \in Keys, default \in Defaults :
          ret' = [called |-> TRUE, key |-> key, default |-> default,
                  value |-> DictGet(params, key, default),
                  after |-> Len(writes)]
    /\ UNCHANGED <<params, writes>>

ParamsIdle ==
    /\ params = <<>>
    /\ writes = <<>>
    /\ ret = NoCall

LandscapeIdle ==
    /\ lpc = "idle"
    /\ size = 0
    /\ field = <<>>
    /\ normalized = <<>>

\* the state of gen before any direct generate() call
NoGen == [called |-> FALSE, n |-> 0, outcome |-> "none", colors |-> <<>>,
          start |-> <<>>, end |-> <<>>]

\* the state of last before any cellular update
NoUpdate == [x |-> -1, y |-> -1, d |-> 0, before |-> <<>>]

ArtIdle ==
    /\ palette_type = "none"
    /\ custom_colors = <<>>
    /\ gen = NoGen
    /\ pc = "idle"
    /\ overlay_params = <<>>
    /\ heightmap = <<>>
    /\ image = <<>>
    /\ base = <<>>
    /\ iter = 0
    /\ circles = {}
    /\ last = NoUpdate
    /\ paletteCalls = 0
    /\ error = "none"

InitParams == ParameterSet_init /\ LandscapeIdle /\ ArtIdle

NextParams ==
    \/ ParameterSet_update /\ UNCHANGED <<lvars, avars>>
    \/ ParameterSet_get /\ UNCHANGED <<lvars, avars>>

SpecParams == InitParams /\ [][NextParams]_vars

\* ---- C1 ----------------------------------------------------------------
\* the writes to key k, oldest first, as the values written
RECURSIVE WrittenValues(_, _)
WrittenValues(log, k) ==
    IF log = <<>> THEN <<>>
    ELSE LET rest == WrittenValues(Tail(log), k)
         IN IF k \in DOMAIN Head(log) THEN <<Head(log)[k]>> \o rest ELSE rest

\* get returned the value most recently written for its key, or its default
\* when the key was never written
GetReturnsLastWrite ==
    ret.called =>
        LET w == WrittenValues(SubSeq(writes, 1, ret.after), ret.key)
        IN ret.value = IF w = <<>> THEN ret.default ELSE w[Len(w)]

\* C1: after construction with any keys and any sequence of update calls,
\* get(key, default) returns the value most recently written for key (by the
\* constructor or a later update), or default when key was never written;
\* and no step removes a key of the ParameterSet: the key set only grows.
C1_GetLastWriteAndKeysGrow ==
    /\ [](GetReturnsLastWrite)
    /\ [][DOMAIN params \subseteq DOMAIN params']_vars

\* C1 witness: a key written by the constructor and overwritten with another
\* value by an update, read back by get with a default that differs from it.
C1_Witness ==
    /\ ret.called
    /\ Len(writes) >= 2
    /\ ret.after = Len(writes)
    /\ ret.key \in DOMAIN writes[1]
    /\ ret.key \in DOMAIN writes[Len(writes)]
    /\ writes[1][ret.key] # writes[Len(writes)][ret.key]
    /\ ret.value = writes[Len(writes)][ret.key]
    /\ ret.value # ret.default

\* ------------------------------------------------------------------------
\* LandscapeGenerator
\* ------------------------------------------------------------------------
\* the cells (i, j) of an n x n grid: range(n) x range(n)
Cells(n) == (0 .. n - 1) \X (0 .. n - 1)

\* heightmap.min() and heightmap.max() of a non-empty grid
GridMin(f) == CHOOSE v \in {f[c] : c \in DOMAIN f} : \A c \in DOMAIN f : v <= f[c]
GridMax(f) == CHOOSE v \in {f[c] : c \in DOMAIN f} : \A c \in DOMAIN f : v >= f[c]

\* a normalisation that divides by the maximum alone
NormalizeByMax(f) ==
    [c \in DOMAIN f |-> [num |-> f[c] - GridMin(f), den |-> GridMax(f)]]

\* (heightmap - heightmap.min()) / (heightmap.max() - heightmap.min()).
\* A quotient is kept as the fraction num/den.  The subtraction and the division
\* of doubles round monotonically and keep 0 and x/x = 1 exact, so the order
\* of the quotients and the values 0.0 and 1.0 are those of the fractions.
\* den = 0 is numpy's 0.0/0.0: every cell of a flat field becomes nan.
Normalize(f) ==
    [c \in DOMAIN f |-> [num |-> f[c] - GridMin(f), den |-> GridMax(f) - GridMin(f)]]

\* generate(self): sample the noise at every cell, then normalise.  With
\* size = 0 the grid is empty and heightmap.min() raises ValueError.
LandscapeGenerator_generate ==
    /\ lpc = "start"
    /\ \E f \in [Cells(size) -> NoiseLevels] :
          /\ field' = f
          /\ IF size = 0
                THEN lpc' = "raised" /\ UNCHANGED normalized
                ELSE lpc' = "returned" /\ normalized' = Normalize(f)
    /\ UNCHANGED size

InitLandscape ==
    /\ ParamsIdle
    /\ ArtIdle
    /\ lpc = "start"
    /\ size \in 0 .. MaxGrid
    /\ field = <<>>
    /\ normalized = <<>>

NextLandscape == LandscapeGenerator_generate /\ UNCHANGED <<pvars, avars>>

SpecLandscape == InitLandscape /\ [][NextLandscape]_vars

\* ---- C2 ----------------------------------------------------------------
\* the value num/den lies in [0, 1]
InUnit(q) == q.den > 0 /\ 0 <= q.num /\ q.num <= q.den

\* C2: for every size >= 1 and every sampled field whose minimum differs from
\* its maximum, generate() returns a size x size grid whose values all lie in
\* [0, 1], with some value exactly 0.0 and some value exactly 1.0; a field
\* with min = max is the one case that escapes: there every cell is 0/0.
C2_NormalizedToUnitRange ==
    lpc = "returned" =>
        /\ DOMAIN normalized = Cells(size)
        /\ IF GridMin(field) # GridMax(field)
              THEN /\ \A c \in Cells(size) : InUnit(normalized[c])
                   /\ \E c \in Cells(size) : normalized[c].num = 0
                   /\ \E c \in Cells(size) : normalized[c].num = normalized[c].den
              ELSE \A c \in Cells(size) : normalized[c] = [num |-> 0, den |-> 0]

\* C2 witness: a returned 2 x 2 (or larger) grid of a field with negative and
\* positive samples, holding a value strictly between 0 and 1.
C2_Witness ==
    /\ lpc = "returned"
    /\ size >= 2
    /\ GridMin(field) < 0
    /\ GridMax(field) > 0
    /\ \E c \in Cells(size) :
          0 < normalized[c].num /\ normalized[c].num < normalized[c].den

\* ------------------------------------------------------------------------
\* Double-precision arithmetic, as far as gradient_colors uses it
\* ------------------------------------------------------------------------
\* Every double gradient_colors computes is a multiple of 1/9 plus a rounding
\* error of a few units of 2^-56.  The record [a |-> a, b |-> b] stands for
\* the real number (a * 2^56 + b) / (9 * 2^56), with b small, so that the
\* arithmetic below is exact although 2^56 itself is never computed.
RECURSIVE Pow2(_)
Pow2(n) == IF n = 0 THEN 1 ELSE 2 * Pow2(n - 1)

DblNeg(x) == [a |-> -x.a, b |-> -x.b]
DblIsZero(x) == x.a = 0 /\ x.b = 0
DblIsNeg(x) == x.a < 0 \/ (x.a = 0 /\ x.b < 0)

\* x >= 2^e, for x > 0
DblAtLeastPow2(x, e) ==
    LET l == IF e >= 0 THEN x.a ELSE x.a * Pow2(-e)
        r == IF e >= 0 THEN 9 * Pow2(e) ELSE 9
    IN l > r \/ (l = r /\ x.b >= 0)

\* the binary exponent of x > 0: 2^e <= x < 2^(e+1)
DblExponent(x) ==
    CHOOSE e \in -4 .. 8 : DblAtLeastPow2(x, e) /\ ~DblAtLeastPow2(x, e + 1)

\* (a * 2^56 + b) mod (9 * 2^m) for 0 <= m <= 56, from its residues mod 2^m
\* (that of b) and mod 9 (2^56 = 4 mod 9)
DblResidue(x, m) ==
    LET low == x.b % Pow2(m)
        j == CHOOSE i \in 0 .. 8 : (low + Pow2(m) * i) % 9 = (4 * x.a + x.b) % 9
    IN low + Pow2(m) * j

\* x > 0 rounded to the nearest double, ties to even: a double with exponent
\* e is a multiple of 2^(e-52), that is of g = 9 * 2^(e+4) units
DblRoundPos(x) ==
    LET e == DblExponent(x)
        g == 9 * Pow2(e + 4)
        r2 == DblResidue(x, e + 5)
        r == r2 % g
        odd == r2 >= g
        up == 2 * r > g \/ (2 * r = g /\ odd)
    IN [a |-> x.a, b |-> IF up THEN x.b + (g - r) ELSE x.b - r]

\* the IEEE 754 rounding of every double operation (round to nearest even)
DblRound(x) ==
    IF DblIsZero(x) THEN x
    ELSE IF DblIsNeg(x) THEN DblNeg(DblRoundPos(DblNeg(x)))
    ELSE DblRoundPos(x)

\* the integer n as a double
DblOfInt(n) == [a |-> 9 * n, b |-> 0]

\* n * x, for an integer n and a double x
DblMulInt(n, x) == DblRound([a |-> n * x.a, b |-> n * x.b])

\* n + x, for an integer n and a double x
DblAddInt(n, x) == DblRound([a |-> 9 * n + x.a, b |-> x.b])

\* int(x): truncation toward zero
DblTrunc(x) ==
    LET y == IF DblIsNeg(x) THEN DblNeg(x) ELSE x
        f == IF y.a % 9 = 0 /\ y.b < 0 THEN (y.a \div 9) - 1 ELSE y.a \div 9
    IN IF DblIsNeg(x) THEN -f ELSE f

\* np.linspace(0, 1, 10): step = 1.0 / 9, y = arange(10) * step + 0.0, and
\* the last sample is set to the stop value 1.0
LinspaceSamples == 10
LinspaceStep == DblRound([a |-> 1, b |-> 0])
Linspace(k) ==
    IF k = LinspaceSamples - 1 THEN DblOfInt(1) ELSE DblMulInt(k, LinspaceStep)

\* ------------------------------------------------------------------------
\* ColorPalette
\* ------------------------------------------------------------------------
PaletteError == "ValueError: Unknown palette type."
KnownPaletteTypes == {"random", "gradient", "custom"}
PaletteTypes == KnownPaletteTypes \cup {"rainbow"}
Red == <<255, 0, 0>>
Blue == <<0, 0, 255>>
\* the (palette_type, custom_colors) pairs a ColorPalette is built with
PaletteConfigs ==
    {<<t, <<>>>> : t \in PaletteTypes} \cup {<<"custom", <<Red, Blue>>>>}

\* random_color(): tuple(random.randint(50, 255) for _ in range(3)), each
\* channel drawn from the given sample of 50..255
random_color(samples) == samples \X samples \X samples

\* int(start_color[i] + (end_color[i] - start_color[i]) * t) for the k-th
\* sample t of np.linspace(0, 1, 10), k = 0..9, in double arithmetic
GradientChannel(s, e, k) == DblTrunc(DblAddInt(s, DblMulInt(e - s, Linspace(k))))

\* gradient_colors(), given the two endpoints random_color() returned
gradient_colors(start, end) ==
    [k \in 1 .. LinspaceSamples |->
        <<GradientChannel(start[1], end[1], k - 1),
          GradientChannel(start[2], end[2], k - 1),
          GradientChannel(start[3], end[3], k - 1)>>]

Returned(colors, start, end) ==
    [outcome |-> "ok", colors |-> colors, start |-> start, end |-> end]

\* a generate() that answers an unknown palette_type with the custom colors
GenerateUnknownAsCustom(ptype, custom, samples, n) ==
    CASE ptype = "random" ->
            {Returned(l, <<>>, <<>>) : l \in [1 .. n -> random_color(samples)]}
      [] ptype = "gradient" ->
            {Returned(gradient_colors(st, en), st, en) :
                st \in random_color(samples), en \in random_color(samples)}
      [] OTHER -> {Returned(custom, <<>>, <<>>)}

\* generate(self, num_colors): every outcome of one call, a returned list or
\* the ValueError; start and end are the endpoints gradient_colors() drew
ColorPalette_generate(ptype, custom, samples, n) ==
    CASE ptype = "random" ->
            {Returned(l, <<>>, <<>>) : l \in [1 .. n -> random_color(samples)]}
      [] ptype = "gradient" ->
            {Returned(gradient_colors(st, en), st, en) :
                st \in random_color(samples), en \in random_color(samples)}
      [] ptype = "custom" -> {Returned(custom, <<>>, <<>>)}
      [] OTHER -> {[outcome |-> PaletteError, colors |-> <<>>,
                    start |-> <<>>, end |-> <<>>]}

\* __init__(self, palette_type, custom_colors): stores both, checks nothing
ColorPalette_init ==
    /\ pc = "new"
    /\ \E cfg \in PaletteConfigs :
          /\ palette_type' = cfg[1]
          /\ custom_colors' = cfg[2]
    /\ pc' = "palette"
    /\ UNCHANGED <<gen, ovars>>

\* a direct call palette.generate(n)
GenerateCall(samples, n) ==
    \E g \in ColorPalette_generate(palette_type, custom_colors, samples, n) :
        gen' = [called |-> TRUE, n |-> n, outcome |-> g.outcome,
                colors |-> g.colors, start |-> g.start, end |-> g.end]

PaletteCall ==
    /\ pc = "palette"
    /\ \E n \in 0 .. MaxColors : GenerateCall(PaletteChannels, n)
    /\ pc' = "generated"
    /\ UNCHANGED <<palette_type, custom_colors, ovars>>

InitArt ==
    /\ palette_type = "none"
    /\ custom_colors = <<>>
    /\ gen = NoGen
    /\ pc = "new"
    /\ overlay_params = <<>>
    /\ heightmap = <<>>
    /\ image = <<>>
    /\ base = <<>>
    /\ iter = 0
    /\ circles = {}
    /\ last = NoUpdate
    /\ paletteCalls = 0
    /\ error = "none"

InitPalette == ParamsIdle /\ LandscapeIdle /\ InitArt

NextPalette ==
    \/ ColorPalette_init /\ UNCHANGED <<pvars, lvars>>
    \/ PaletteCall /\ UNCHANGED <<pvars, lvars>>

SpecPalette == InitPalette /\ [][NextPalette]_vars

\* ---- C3 ----------------------------------------------------------------
\* start + (end - start) * k / 9 truncated toward zero, in exact arithmetic
\* (the value lies between the two endpoints, so it is positive and the
\* truncation is the floor)
ExactGradientChannel(s, e, k) == (9 * s + (e - s) * k) \div 9

GradientCall == gen.called /\ palette_type = "gradient"

\* C3 as claimed: a gradient palette's generate(n) returns exactly 10 colors
\* for every n, the first is the start endpoint, the last is the end endpoint,
\* and channel i of the k-th color (k = 0..9) is
\* start[i] + (end[i] - start[i]) * k / 9 truncated toward zero.
C3_GradientExactInterpolation ==
    GradientCall =>
        /\ gen.outcome = "ok"
        /\ Len(gen.colors) = 10
        /\ gen.colors[1] = gen.start
        /\ gen.colors[10] = gen.end
        /\ \A k \in 0 .. 9, i \in 1 .. 3 :
              gen.colors[k + 1][i] = ExactGradientChannel(gen.start[i], gen.end[i], k)

\* What the double arithmetic gives instead: the count and the endpoints are
\* as claimed, and a channel is the exact value or, at k = 7 of a rising
\* channel only, one below it.
GradientWithinOneOfExact ==
    GradientCall =>
        /\ gen.outcome = "ok"
        /\ Len(gen.colors) = 10
        /\ gen.colors[1] = gen.start
        /\ gen.colors[10] = gen.end
        /\ \A k \in 0 .. 9, i \in 1 .. 3 :
              LET exact == ExactGradientChannel(gen.start[i], gen.end[i], k)
              IN /\ gen.colors[k + 1][i] \in {exact - 1, exact}
                 /\ (k # 7 \/ gen.end[i] <= gen.start[i]) => gen.colors[k + 1][i] = exact

\* ------------------------------------------------------------------------
\* OverlayArtist and ArtProject
\* ------------------------------------------------------------------------
OverlayError == "ValueError: Unknown overlay type."
IndexError == "IndexError"
KnownOverlayTypes == {"particles", "fractal", "cellular"}
DefaultNumColors == 10
DefaultParticles == 500
DefaultIterations == 100
MinRadius == 1
MaxRadius == 5

\* the overlay ParameterSets an OverlayArtist is built with; one leaves
\* overlay_type out, one names an unknown overlay
OverlayParamSets ==
    {[overlay_type |-> "particles", num_particles |-> k] : k \in 0 .. MaxParticles}
    \cup {[num_particles |-> 1]}
    \cup {[overlay_type |-> "cellular", iterations |-> k] : k \in 0 .. MaxIterations}
    \cup {[overlay_type |-> "fractal"], [overlay_type |-> "mosaic"]}

\* A heightmap value h in [0, 1] is kept in fixed point, as v = h * HeightUnit,
\* so that h * 255 = v / 10 has one decimal digit.
HeightUnit == 255 * 10
\* normalised heightmaps: a checkerboard of two levels (h * 255 = 0 and 3.6,
\* 127.6 and 255) and the flat map at 1.0
Heightmaps ==
    {[c \in Cells(Side) |-> IF (c[1] + c[2]) % 2 = 0 THEN lv[1] ELSE lv[2]] :
        lv \in {<<0, 36>>, <<1276, 2550>>, <<2550, 2550>>}}

\* a conversion that rounds h * 255 to the nearest integer (no tie arises
\* among the levels above)
GrayRounded(v) == (255 * v * 2 + HeightUnit) \div (2 * HeightUnit)

\* (h * 255).astype("uint8") for h in [0, 1]: the fraction is cut off
Gray(v) == (255 * v) \div HeightUnit

\* Image.fromarray(...).convert("RGB"): heightmap[i][j] becomes the pixel of
\* row i and column j, with R = G = B
ToRGB(hm) == [c \in DOMAIN hm |-> <<Gray(hm[c]), Gray(hm[c]), Gray(hm[c])>>]

\* image.size[0] and image.size[1]; pixels.shape[0] and [1] (square images)
Width(img) == Side
Height(img) == Side

\* a dispatch that falls back to the default overlay
OverlayRoutineDefaulting(overlay_type) ==
    IF overlay_type \in KnownOverlayTypes THEN overlay_type ELSE "particles"

\* the if/elif chain of apply_overlay
OverlayRoutine(overlay_type) ==
    IF overlay_type \in KnownOverlayTypes THEN overlay_type ELSE "raise"

\* random.choice(self.palette.generate()): a color of the returned list, the
\* ValueError of generate(), or the IndexError of a choice from an empty list
PaletteChoice ==
    LET gs == ColorPalette_generate(palette_type, custom_colors,
                                    OverlayChannels, DefaultNumColors)
    IN UNION {{[outcome |-> "ok", color |-> g.colors[i]] : i \in 1 .. Len(g.colors)} :
                 g \in {h \in gs : h.outcome = "ok"}}
       \cup {[outcome |-> g.outcome, color |-> <<>>] : g \in {h \in gs : h.outcome # "ok"}}
       \cup {[outcome |-> IndexError, color |-> <<>>] :
                g \in {h \in gs : h.outcome = "ok" /\ h.colors = <<>>}}

\* draw.ellipse((x - r, y - r, x + r, y + r)): the pixels (column px, row py)
\* of the closed disc inscribed in that box; what falls outside the image is
\* clipped
EllipsePixels(x, y, r) ==
    {c \in Cells(Side) : (c[2] - x) * (c[2] - x) + (c[1] - y) * (c[1] - y) <= r * r}

\* an ellipse fill that repaints the whole rows it touches
DrawEllipseRows(img, x, y, r, color) ==
    [c \in DOMAIN img |->
        IF \E e \in EllipsePixels(x, y, r) : e[1] = c[1] THEN color ELSE img[c]]

\* draw.ellipse(..., fill=color) on the image
DrawEllipse(img, x, y, r, color) ==
    [c \in DOMAIN img |-> IF c \in EllipsePixels(x, y, r) THEN color ELSE img[c]]

\* x // n truncated toward zero, n > 0: the cast of a double to an integer
TruncDiv(x, n) == IF x >= 0 THEN x \div n ELSE -((-x) \div n)

\* The cast of the double t (already truncated) to uint8.  Out of 0..255 the
\* C cast is undefined: the build either keeps the low 8 bits (x86) or
\* saturates (ARM).
CastUint8(t, mode) ==
    IF t >= 0 /\ t <= 255 THEN t
    ELSE IF mode = "wrap" THEN t % 256
    ELSE IF t < 0 THEN 0 ELSE 255
CastModes == {"wrap", "saturate"}

\* pixels[max(0, x - 1): x + 2, max(0, y - 1): y + 2]: the cells of the slice
Neighbors(x, y) ==
    {c \in Cells(Side) : /\ c[1] >= x - 1 /\ c[1] <= x + 1
                         /\ c[2] >= y - 1 /\ c[2] <= y + 1}

RECURSIVE SumChannel(_, _, _)
SumChannel(img, S, ch) ==
    IF S = {} THEN 0
    ELSE LET c == CHOOSE e \in S : TRUE
         IN img[c][ch] + SumChannel(img, S \ {c}, ch)

\* neighbors.mean(axis=(0, 1)) + d, cast into the uint8 array: per channel
\* the double sum / count + d, truncated and cast; one outcome per way the
\* build casts
CellValues(img, x, y, d) ==
    LET nb == Neighbors(x, y)
        n == Cardinality(nb)
    IN {[ch \in 1 .. 3 |-> CastUint8(TruncDiv(SumChannel(img, nb, ch) + d * n, n), mode)] :
           mode \in CastModes}

\* an assignment that writes the whole row of the chosen cell
CellularWriteRow(img, x, y, v) ==
    [c \in DOMAIN img |-> IF c[1] = x THEN v ELSE img[c]]

\* pixels[x, y] = v
CellularWrite(img, x, y, v) == [img EXCEPT ![<<x, y>>] = v]

NumParticles == DictGet(overlay_params, "num_particles", DefaultParticles)
Iterations == DictGet(overlay_params, "iterations", DefaultIterations)
OverlayType == DictGet(overlay_params, "overlay_type", "particles")

\* ArtProject.__init__: builds the LandscapeGenerator and the OverlayArtist
\* around the parameter sets and the palette; checks nothing
ArtProject_init ==
    /\ pc = "palette"
    /\ overlay_params' \in OverlayParamSets
    /\ pc' = "ready"
    /\ UNCHANGED <<cvars, heightmap, image, base, iter, circles, last, paletteCalls, error>>

\* a direct call palette.generate(n) by the owner of the project
DirectGenerate ==
    /\ pc = "ready"
    /\ \E n \in ArtNumColors : GenerateCall(OverlayChannels, n)
    /\ pc' = "generated"
    /\ UNCHANGED <<palette_type, custom_colors, ovars>>

\* create(), first statement: heightmap = self.landscape_gen.generate()
ArtProject_create ==
    /\ pc = "ready"
    /\ heightmap' \in Heightmaps
    /\ pc' = "apply"
    /\ UNCHANGED <<cvars, overlay_params, image, base, iter, circles, last, paletteCalls, error>>

\* apply_overlay up to the dispatch: the grayscale RGB image is built, then
\* the overlay routine is entered or the ValueError raised
apply_overlay ==
    /\ pc = "apply"
    /\ image' = ToRGB(heightmap)
    /\ base' = image'
    /\ iter' = 0
    /\ IF OverlayRoutine(OverlayType) = "raise"
          THEN pc' = "raised" /\ error' = OverlayError
          ELSE pc' = OverlayRoutine(OverlayType) /\ UNCHANGED error
    /\ UNCHANGED <<cvars, overlay_params, heightmap, circles, last, paletteCalls>>

\* one iteration of the loop of particle_overlay
particle_overlay ==
    /\ pc = "particles"
    /\ iter < NumParticles
    /\ paletteCalls' = paletteCalls + 1
    /\ \E x \in 0 .. Width(image), y \in 0 .. Height(image), ch \in PaletteChoice :
          IF ch.outcome # "ok"
             THEN /\ pc' = "raised"
                  /\ error' = ch.outcome
                  /\ UNCHANGED <<image, iter, circles>>
             ELSE \E r \in MinRadius .. MaxRadius :
                     /\ image' = DrawEllipse(image, x, y, r, ch.color)
                     /\ circles' = circles \cup {[x |-> x, y |-> y, r |-> r]}
                     /\ iter' = iter + 1
                     /\ UNCHANGED <<pc, error>>
    /\ UNCHANGED <<cvars, overlay_params, heightmap, base, last>>

\* fractal_overlay: the pixels the test random.random() < 0.001 selects are
\* recolored, each with a color of its own from the palette
fractal_overlay ==
    /\ pc = "fractal"
    /\ \E hits \in {H \in SUBSET Cells(Side) : Cardinality(H) <= MaxFractalHits} :
          IF hits = {}
             THEN pc' = "done" /\ UNCHANGED <<image, paletteCalls, error>>
             ELSE \/ /\ \E ch \in PaletteChoice : ch.outcome # "ok" /\ error' = ch.outcome
                     /\ pc' = "raised"
                     /\ paletteCalls' = paletteCalls + 1
                     /\ UNCHANGED image
                  \/ /\ \E col \in [hits -> {ch.color : ch \in {o \in PaletteChoice : o.outcome = "ok"}}] :
                          image' = [c \in DOMAIN image |-> IF c \in hits THEN col[c] ELSE image[c]]
                     /\ pc' = "done"
                     /\ paletteCalls' = paletteCalls + Cardinality(hits)
                     /\ UNCHANGED error
    /\ UNCHANGED <<cvars, overlay_params, heightmap, base, iter, circles, last>>

\* one iteration of the loop of cellular_automata
cellular_automata ==
    /\ pc = "cellular"
    /\ iter < Iterations
    /\ \E x \in 0 .. Height(image) - 1, y \in 0 .. Width(image) - 1,
          d \in Perturbations :
          /\ \E v \in CellValues(image, x, y, d) : image' = CellularWrite(image, x, y, v)
          /\ last' = [x |-> x, y |-> y, d |-> d, before |-> image]
    /\ iter' = iter + 1
    /\ UNCHANGED <<cvars, pc, overlay_params, heightmap, base, circles, paletteCalls, error>>

\* the loop of particle_overlay or cellular_automata ends: the image is
\* returned (pixels is a uint8 array, so the final astype changes nothing)
overlay_return ==
    /\ \/ pc = "particles" /\ iter >= NumParticles
       \/ pc = "cellular" /\ iter >= Iterations
    /\ pc' = "done"
    /\ UNCHANGED <<cvars, ovars>>

NextArt ==
    \/ ColorPalette_init /\ UNCHANGED <<pvars, lvars>>
    \/ ArtProject_init /\ UNCHANGED <<pvars, lvars>>
    \/ DirectGenerate /\ UNCHANGED <<pvars, lvars>>
    \/ ArtProject_create /\ UNCHANGED <<pvars, lvars>>
    \/ apply_overlay /\ UNCHANGED <<pvars, lvars>>
    \/ particle_overlay /\ UNCHANGED <<pvars, lvars>>
    \/ fractal_overlay /\ UNCHANGED <<pvars, lvars>>
    \/ cellular_automata /\ UNCHANGED <<pvars, lvars>>
    \/ overlay_return /\ UNCHANGED <<pvars, lvars>>

SpecArt == InitPalette /\ [][NextArt]_vars

\* ---- the claims about OverlayArtist and ArtProject ----------------------
\* apply_overlay has built the image
ImageBuilt == pc \in {"particles", "fractal", "cellular", "done", "raised"} /\ base # <<>>

\* the pixels that differ from the grayscale base image
Changed == {c \in DOMAIN image : image[c] # base[c]}

\* C4: for every overlay_type outside {particles, fractal, cellular},
\* apply_overlay raises the configuration error with the image unmutated: no
\* overlay routine has run (no circle drawn, no cellular update, no loop
\* iteration), every pixel is that of the grayscale base image, and
\* palette.generate() was never called.
C4_UnknownOverlayRaisesUnmutated ==
    (OverlayType \notin KnownOverlayTypes /\ pc \notin {"new", "palette", "ready", "generated", "apply"}) =>
        /\ pc = "raised"
        /\ error = OverlayError
        /\ image = ToRGB(heightmap)
        /\ image = base
        /\ circles = {}
        /\ last = NoUpdate
        /\ iter = 0
        /\ paletteCalls = 0

\* C4 witness: create() has raised the overlay error for the overlay "mosaic".
C4_Witness ==
    /\ pc = "raised"
    /\ error = OverlayError
    /\ overlay_params = [overlay_type |-> "mosaic"]
    /\ image # <<>>

\* C5: with a palette_type outside {random, gradient, custom}, building the
\* ColorPalette and the ArtProject raises nothing (an error exists only once
\* create() has raised); every direct generate(n) call raises the
\* configuration error; and a create() that reaches palette.generate() ends
\* raised with that same error.
C5_UnknownPaletteFailsAtGeneration ==
    (palette_type \notin KnownPaletteTypes /\ pc # "new") =>
        /\ pc \in {"palette", "ready", "generated", "apply"} => error = "none"
        /\ gen.called => gen.outcome = PaletteError /\ gen.colors = <<>>
        /\ paletteCalls > 0 => /\ pc = "raised"
                               /\ error = PaletteError
                               /\ paletteCalls = 1

\* C5 witness: an ArtProject built around a "rainbow" palette, whose create()
\* reached palette.generate() in an overlay routine and raised its error.
C5_Witness ==
    /\ palette_type = "rainbow"
    /\ pc = "raised"
    /\ error = PaletteError
    /\ paletteCalls = 1
    /\ image = base

\* the particles overlay was entered
ParticlesEntered ==
    ImageBuilt /\ OverlayType = "particles" /\ pc \in {"particles", "done", "raised"}

CellularEntered ==
    ImageBuilt /\ OverlayType = "cellular" /\ pc \in {"cellular", "done"}

\* C7: the cellular overlay with iterations = k performs exactly k updates,
\* each of which writes only the chosen pixel, so that at most k pixels differ
\* from the grayscale base image; with iterations = 0 the output is the base
\* image.
C7_CellularWritesOnePixelPerUpdate ==
    CellularEntered =>
        /\ Cardinality(Changed) <= iter
        /\ iter <= Iterations
        /\ last # NoUpdate =>
              \A c \in DOMAIN image : c # <<last.x, last.y>> => image[c] = last.before[c]
        /\ pc = "done" => /\ iter = Iterations
                          /\ Cardinality(Changed) <= Iterations
                          /\ Iterations = 0 => image = base

\* C7 witness: a returned image after two updates that changed two pixels.
C7_Witness ==
    /\ CellularEntered
    /\ pc = "done"
    /\ Iterations = 2
    /\ Cardinality(Changed) = 2

\* a value clipped to the 8-bit range
Clip(t) == IF t < 0 THEN 0 ELSE IF t > 255 THEN 255 ELSE t

\* C8 as claimed: after every cellular update the chosen pixel holds, in each
\* channel, the mean of that channel over its clipped 3x3 neighbourhood in the
\* image as it was, plus the perturbation d shared by the channels, clipped to
\* 0..255 (below 0 becomes 0, above 255 becomes 255).
C8_UpdateIsClippedMean ==
    (CellularEntered /\ last # NoUpdate) =>
        LET nb == Neighbors(last.x, last.y)
            n == Cardinality(nb)
        IN \A ch \in 1 .. 3 :
              image[<<last.x, last.y>>][ch] =
                  Clip(TruncDiv(SumChannel(last.before, nb, ch) + last.d * n, n))

\* C9 as claimed: step 1 gives every cell the gray value round(h * 255), with
\* R = G = B (h * 255 = 127.6 gives 128).
C9_GrayIsRounded ==
    ImageBuilt =>
        \A c \in DOMAIN heightmap, ch \in 1 .. 3 :
            LET g == base[c][ch]
                d == 2 * 255 * heightmap[c] - 2 * g * HeightUnit
            IN -HeightUnit <= d /\ d <= HeightUnit

\* C9 as amended: step 1 gives every cell the gray value floor(h * 255), the
\* integer part of h * 255, with R = G = B (h * 255 = 127.6 gives 127).
C9_GrayIsTruncated ==
    ImageBuilt =>
        /\ DOMAIN base = DOMAIN heightmap
        /\ \A c \in DOMAIN heightmap, ch \in 1 .. 3 :
              LET g == base[c][ch]
              IN /\ g \in 0 .. 255
                 /\ g * HeightUnit <= 255 * heightmap[c]
                 /\ 255 * heightmap[c] < (g + 1) * HeightUnit

\* C9 witness: a base image built from a heightmap holding h * 255 = 127.6,
\* whose gray value is 127.
C9_Witness ==
    /\ ImageBuilt
    /\ \E c \in DOMAIN heightmap : heightmap[c] = 1276 /\ base[c] = <<127, 127, 127>>

\* C10 as claimed: every circle of the particles overlay has its centre
\* inside the image, 0 <= x < width and 0 <= y < height, and an integer
\* radius in 1..5.
C10_CentresWithinImage ==
    \A k \in circles :
        /\ 0 <= k.x /\ k.x < Width(image)
        /\ 0 <= k.y /\ k.y < Height(image)
        /\ k.r \in 1 .. 5

====
